---- MODULE Spec2Model ----
(***************************************************************************)
(* Invoice-Tracker: the Dashboard's aggregation (features/dashboard/       *)
(* Dashboard.tsx, src/unnamed/part_000) over the Invoice records of        *)
(* types.ts (src/unnamed/part_005).                                        *)
(*                                                                         *)
(* Abstractions.  A JavaScript Date is modelled by its local calendar      *)
(* fields [year, month, day], month 0-based as getMonth() returns it.  An  *)
(* invoice's `date` and `dueDate` strings are modelled by the local        *)
(* (year, month) that `new Date(s)` yields, the only fields the Dashboard  *)
(* reads.  `total` is an integer, so `+` is exact.                         *)
(***************************************************************************)
EXTENDS Integers, Sequences, FiniteSets

VARIABLES
    invoices,       \* DashboardProps.invoices
    today,          \* what `new Date()` returns during the render
    totalIncome,
    totalExpense,
    pendingIncome,
    overdueIncome,
    barChartData,
    lineChartData,
    \* App (App.tsx) and the backend table behind services/storage.ts
    user,           \* App state `user`: a user id, or NoUser for null
    rows,           \* the rows of the backend table `invoices`
    nextId,         \* number of the next id the backend generates
    dbClock,        \* number of the next insert statement (created_at)
    isEditing,      \* App state `isEditing`
    currentInvoice, \* App state `currentInvoice`: <<>> for null, else <<inv>>
    fetched,        \* what the last getInvoices call returned, and for whom
    deleted,        \* the id the last step handed to deleteInvoice
    \* InvoiceEditor (features/invoices/InvoiceEditor.tsx)
    formData,       \* the form fields handleSubmit reads
    items,          \* state `items`
    saved,          \* the invoice the last step handed to onSave, <<>> if none
    \* InvoiceList import (features/invoices/InvoiceList.tsx)
    sheet,          \* the rows sheet_to_json read from the chosen file
    importUser,     \* `user` in the onImport the reader's onload closes over
    imported,       \* the importedInvoices handed to onImport
    alerts,         \* the texts the last handler passed to alert()
    exported,       \* the file handleExport wrote last, <<>> if none
    \* App (App.tsx), continued
    view,           \* state `view`
    error,          \* state `error`: NoError for null, else the banner text
    isLoadingData,  \* state `isLoadingData`
    inflight,       \* the fetchInvoices calls awaiting getInvoices
    latest,         \* the fetchInvoices call that started last, <<>> if none
    confirmed,      \* what window.confirm answered in the last step, <<>> if not asked
    \* AuthScreen (features/auth/AuthScreen.tsx)
    isLogin,        \* state `isLogin`
    authError,      \* state `error` of the screen
    isLoading,      \* state `isLoading`
    authRequest     \* the last submission of the form, <<>> if none

dashVars == <<totalIncome, totalExpense, pendingIncome, overdueIncome,
              barChartData, lineChartData>>

appVars == <<user, rows, nextId, dbClock, isEditing, currentInvoice, fetched,
             deleted>>

editorVars == <<formData, items, saved>>

importVars == <<sheet, importUser, imported, alerts, exported>>

flowVars == <<view, error, isLoadingData, inflight, latest, confirmed>>

authVars == <<isLogin, authError, isLoading, authRequest>>

vars == <<invoices, today, dashVars, appVars, editorVars, importVars,
          flowVars, authVars>>

----------------------------------------------------------------------------
(* Bounds *)

MaxInvoices == 2        \* longest invoice list of Spec
SpecYear == 2024        \* year of the month Spec's clock runs in
SpecMonth == 9          \* that month (0-based: October)
SpecDays == 2           \* Spec's clock runs over the last SpecDays days of it
ClockYears == 2         \* ClockSpec's clock runs over the years up to SpecYear

Totals == {-1, 0, 2}

MaxItems == 2           \* longest item list of the editor

----------------------------------------------------------------------------
(* types.ts *)

InvoiceStatus == {"draft", "pending", "paid", "overdue"}

Direction == {"outgoing", "incoming"}

\* (year, month) values of the `date` and `dueDate` of the records drawn
IssueDates ==
    { [year |-> SpecYear, month |-> SpecMonth],
      [year |-> SpecYear, month |-> SpecMonth - 1],
      [year |-> SpecYear - 1, month |-> SpecMonth] }

\* those of the records of Spec's lists: this month, and a year before
SpecIssueDates == { d \in IssueDates : d.month = SpecMonth }

Invoice ==
    [direction : Direction, status : InvoiceStatus, total : Totals,
     date : IssueDates, dueDate : IssueDates]

----------------------------------------------------------------------------
(* JavaScript Date *)

IsLeapYear(y) == (y % 4 = 0 /\ y % 100 # 0) \/ y % 400 = 0

DaysInMonth(y, m) ==
    IF m = 1 THEN (IF IsLeapYear(y) THEN 29 ELSE 28)
    ELSE IF m \in {3, 5, 8, 10} THEN 30
    ELSE 31

RECURSIVE MakeDay(_, _, _)
\* ECMAScript MakeDay: a month outside 0..11 carries into the year, a day
\* past the end of the month carries into the following month.
MakeDay(y, m, d) ==
    IF m < 0 \/ m > 11 THEN MakeDay(y + (m \div 12), m % 12, d)
    ELSE IF d > DaysInMonth(y, m) THEN MakeDay(y, m + 1, d - DaysInMonth(y, m))
    ELSE [year |-> y, month |-> m, day |-> d]

\* Date.prototype.setMonth(month): the day of the month is kept
setMonth(d, month) == MakeDay(d.year, month, d.day)

MonthShort ==
    <<"Jan", "Feb", "Mar", "Apr", "May", "Jun",
      "Jul", "Aug", "Sep", "Oct", "Nov", "Dec">>

\* d.toLocaleString('default', { month: 'short' })
toLocaleMonth(d) == MonthShort[d.month + 1]

----------------------------------------------------------------------------
(* Array.prototype.filter / reduce *)

\* mutant: `sum = inv.total` for `sum + inv.total`
SumTotal_Overwrite(s) == IF s = <<>> THEN 0 ELSE s[Len(s)].total

RECURSIVE SumTotal(_)
\* .reduce((sum, inv) => sum + inv.total, 0)
SumTotal(s) == IF s = <<>> THEN 0 ELSE SumTotal(SubSeq(s, 1, Len(s) - 1)) + s[Len(s)].total

----------------------------------------------------------------------------
(* Dashboard: summary scalars *)

IsIncome(inv) == inv.direction = "outgoing" /\ inv.status # "draft"

IsExpense(inv) == inv.direction = "incoming" /\ inv.status # "draft"

IsPendingIncome(inv) == inv.direction = "outgoing" /\ inv.status = "pending"

IsOverdueIncome(inv) == inv.direction = "outgoing" /\ inv.status = "overdue"

\* mutant: records whose total is not positive are filtered out
TotalIncome_PositiveOnly(invs) ==
    SumTotal(SelectSeq(invs, LAMBDA inv : IsIncome(inv) /\ inv.total > 0))

TotalIncome(invs) == SumTotal(SelectSeq(invs, IsIncome))

\* mutant: the status test is missing
TotalExpense_WithDrafts(invs) ==
    SumTotal(SelectSeq(invs, LAMBDA inv : inv.direction = "incoming"))

TotalExpense(invs) == SumTotal(SelectSeq(invs, IsExpense))

\* mutant: the direction test is missing
PendingIncome_AnyDirection(invs) ==
    SumTotal(SelectSeq(invs, LAMBDA inv : inv.status = "pending"))

PendingIncome(invs) == SumTotal(SelectSeq(invs, IsPendingIncome))

\* mutant: every unpaid outgoing record counts as overdue
OverdueIncome_Unpaid(invs) ==
    SumTotal(SelectSeq(invs, LAMBDA inv :
        inv.direction = "outgoing" /\ inv.status \notin {"paid", "draft"}))

OverdueIncome(invs) == SumTotal(SelectSeq(invs, IsOverdueIncome))

----------------------------------------------------------------------------
(* Dashboard: chart data *)

FirstOffset == 5        \* for (let i = 5; i >= 0; i--)

\* mutant: the loop stops at i > 0
getLast6Months_FiveMonths(now) ==
    [k \in 1..FirstOffset |->
        LET i == FirstOffset + 1 - k
            d == setMonth(now, now.month - i)
        IN  [name |-> toLocaleMonth(d), fullDate |-> d,
             total |-> 0, pending |-> 0, overdue |-> 0]]

\* One entry per loop iteration, i = FirstOffset down to 0; `now` is the
\* value of `new Date()`.
getLast6Months(now) ==
    [k \in 1..(FirstOffset + 1) |->
        LET i == FirstOffset + 1 - k
            d == setMonth(now, now.month - i)
        IN  [name |-> toLocaleMonth(d), fullDate |-> d,
             total |-> 0, pending |-> 0, overdue |-> 0]]

\* mutant: the month is taken from inv.dueDate
InMonth_ByDueDate(inv, month) ==
    /\ inv.dueDate.month = month.fullDate.month
    /\ inv.dueDate.year = month.fullDate.year

\* d.getMonth() === month.fullDate.getMonth() &&
\* d.getFullYear() === month.fullDate.getFullYear(), d = new Date(inv.date)
InMonth(inv, month) ==
    /\ inv.date.month = month.fullDate.month
    /\ inv.date.year = month.fullDate.year

monthInvoices(invs, month) == SelectSeq(invs, LAMBDA inv : InMonth(inv, month))

\* mutant: drafts are counted
BarIncome_WithDrafts(invs, month) ==
    SumTotal(SelectSeq(monthInvoices(invs, month),
                       LAMBDA inv : inv.direction = "outgoing"))

BarIncome(invs, month) == SumTotal(SelectSeq(monthInvoices(invs, month), IsIncome))

IsPending(inv) == inv.status = "pending"

IsOverdue(inv) == inv.status = "overdue"

\* mutant: only outgoing records are counted
LinePending_OutgoingOnly(invs, month) ==
    SumTotal(SelectSeq(monthInvoices(invs, month), IsPendingIncome))

LinePending(invs, month) == SumTotal(SelectSeq(monthInvoices(invs, month), IsPending))

LineOverdue(invs, month) == SumTotal(SelectSeq(monthInvoices(invs, month), IsOverdue))

\* mutant: months without revenue are dropped from the series
BarChartData_NonEmptyOnly(invs, now) ==
    LET months == getLast6Months(now)
        all == [k \in DOMAIN months |->
                   [months[k] EXCEPT !.total = BarIncome(invs, months[k])]]
    IN  SelectSeq(all, LAMBDA m : m.total # 0)

BarChartData(invs, now) ==
    LET months == getLast6Months(now)
    IN  [k \in DOMAIN months |->
            [months[k] EXCEPT !.total = BarIncome(invs, months[k])]]

LineChartData(invs, now) ==
    LET months == getLast6Months(now)
    IN  [k \in DOMAIN months |->
            [months[k] EXCEPT !.pending = LinePending(invs, months[k]),
                              !.overdue = LineOverdue(invs, months[k])]]

\* mutant: the list is reversed in place (invoices.reverse() before a slice)
invoicesAfterRender_Reversed(invs) ==
    [i \in 1..Len(invs) |-> invs[Len(invs) + 1 - i]]

\* The props array after a render: filter, reduce, map and slice build new
\* arrays and leave `invoices` as it was.
invoicesAfterRender(invs) == invs

\* One render of the component with props `invs` while the clock reads `now`
Dashboard(invs, now) ==
    /\ totalIncome' = TotalIncome(invs)
    /\ totalExpense' = TotalExpense(invs)
    /\ pendingIncome' = PendingIncome(invs)
    /\ overdueIncome' = OverdueIncome(invs)
    /\ barChartData' = BarChartData(invs, now)
    /\ lineChartData' = LineChartData(invs, now)

----------------------------------------------------------------------------
(* The clock *)

NextDay(d) == MakeDay(d.year, d.month, d.day + 1)

NoUser == "null"

\* Nobody is signed in, the table is empty, no editor is mounted and no file
\* has been chosen.
AppIdle ==
    /\ user = NoUser
    /\ rows = {}
    /\ nextId = 1
    /\ dbClock = 1
    /\ isEditing = FALSE
    /\ currentInvoice = <<>>
    /\ fetched = <<>>
    /\ deleted = <<>>

EditorIdle ==
    /\ formData = [clientName |-> ""]
    /\ items = <<>>
    /\ saved = <<>>

ImportIdle ==
    /\ sheet = <<>>
    /\ importUser = NoUser
    /\ imported = <<>>
    /\ alerts = <<>>
    /\ exported = <<>>

\* `error` of App when it is null
NoError == "null"

\* The banner fetchInvoices sets when getInvoices throws
CouldNotLoad ==
    "Could not load invoices. Please ensure you have run the database setup SQL."

Views == {"dashboard", "invoices", "settings"}

FlowIdle ==
    /\ view = "dashboard"
    /\ error = NoError
    /\ isLoadingData = FALSE
    /\ inflight = <<>>
    /\ latest = <<>>
    /\ confirmed = <<>>

AuthIdle ==
    /\ isLogin = TRUE
    /\ authError = ""
    /\ isLoading = FALSE
    /\ authRequest = <<>>

SpecStart ==
    [year |-> SpecYear, month |-> SpecMonth,
     day |-> DaysInMonth(SpecYear, SpecMonth) - SpecDays + 1]

ClockStart == [year |-> SpecYear - ClockYears + 1, month |-> 0, day |-> 1]

----------------------------------------------------------------------------
(* Spec: invoice lists of up to MaxInvoices records, rendered on the last  *)
(* SpecDays days of one month.                                             *)

Rendered(invs, now) ==
    /\ totalIncome = TotalIncome(invs)
    /\ totalExpense = TotalExpense(invs)
    /\ pendingIncome = PendingIncome(invs)
    /\ overdueIncome = OverdueIncome(invs)
    /\ barChartData = BarChartData(invs, now)
    /\ lineChartData = LineChartData(invs, now)

Init ==
    /\ invoices = <<>>
    /\ today = SpecStart
    /\ Rendered(invoices, today)
    /\ AppIdle /\ EditorIdle /\ ImportIdle /\ FlowIdle /\ AuthIdle

\* The parent passes a list with one more record (getInvoices orders
\* newest first), and the component renders.
AddInvoice ==
    /\ Len(invoices) < MaxInvoices
    /\ \E inv \in Invoice :
        /\ inv.date \in SpecIssueDates
        /\ inv.dueDate = inv.date
        /\ invoices' = invoicesAfterRender(<<inv>> \o invoices)
    /\ today' = today
    /\ Dashboard(invoices', today')
    /\ UNCHANGED <<appVars, editorVars, importVars,
                   flowVars, authVars>>

\* The component renders again a day later, same props.
RenderNextDay ==
    /\ NextDay(today).month = SpecMonth
    /\ today' = NextDay(today)
    /\ invoices' = invoicesAfterRender(invoices)
    /\ Dashboard(invoices', today')
    /\ UNCHANGED <<appVars, editorVars, importVars,
                   flowVars, authVars>>

Next == AddInvoice \/ RenderNextDay

Spec == Init /\ [][Next]_vars

----------------------------------------------------------------------------
(* ClockSpec: at most one record, rendered on every day of ClockYears      *)
(* years; the record's dueDate is edited.                                  *)

ClockInit ==
    /\ invoices = <<>>
    /\ today = ClockStart
    /\ Rendered(invoices, today)
    /\ AppIdle /\ EditorIdle /\ ImportIdle /\ FlowIdle /\ AuthIdle

SetInvoice ==
    /\ invoices = <<>>
    /\ \E inv \in Invoice :
        /\ inv.dueDate = inv.date
        /\ invoices' = invoicesAfterRender(<<inv>>)
    /\ today' = today
    /\ Dashboard(invoices', today')
    /\ UNCHANGED <<appVars, editorVars, importVars,
                   flowVars, authVars>>

\* The record is saved again with another dueDate, nothing else changed.
EditDueDate ==
    /\ \E i \in DOMAIN invoices : \E due \in IssueDates :
        /\ due # invoices[i].dueDate
        /\ invoices' = invoicesAfterRender([invoices EXCEPT ![i].dueDate = due])
    /\ today' = today
    /\ Dashboard(invoices', today')
    /\ UNCHANGED <<appVars, editorVars, importVars,
                   flowVars, authVars>>

RenderLaterDay ==
    /\ NextDay(today).year <= SpecYear
    /\ today' = NextDay(today)
    /\ invoices' = invoicesAfterRender(invoices)
    /\ Dashboard(invoices', today')
    /\ UNCHANGED <<appVars, editorVars, importVars,
                   flowVars, authVars>>

ClockNext == SetInvoice \/ EditDueDate \/ RenderLaterDay

ClockSpec == ClockInit /\ [][ClockNext]_vars

----------------------------------------------------------------------------
(* Invoice ids and users *)

Users == {"alice", "bob"}

\* An id string is a prefix and a body: 'inv_' + Date.now() for the editor's
\* temporary ids, no prefix for the ids the backend generates, both empty
\* for ''.
TempId == [prefix |-> "inv_", n |-> 1]

EmptyId == [prefix |-> "", n |-> 0]

BackendId(k) == [prefix |-> "", n |-> k]

\* invoice.id.startsWith('inv_')
startsWithInv(id) == id.prefix = "inv_"

----------------------------------------------------------------------------
(* InvoiceEditor *)

\* The value of a number input: '' or the digits typed.  A number set by
\* the code (quantity: 1) is the same as its digits.
Typed(n) == [empty |-> FALSE, num |-> n]

EmptyInput == [empty |-> TRUE, num |-> 0]

\* Number(v) of such a value
Number(v) == IF v.empty THEN 0 ELSE v.num

QuantityInputs == {EmptyInput, Typed(1), Typed(2)}

PriceInputs == {EmptyInput, Typed(0), Typed(3)}

ItemIds == 1..2         \* values of Date.now().toString()

\* { id: Date.now().toString(), description: '', quantity: 1, price: 0 }
NewItem(id) == [id |-> id, quantity |-> Typed(1), price |-> Typed(0)]

\* mutant: the sum of the prices, the quantity forgotten
calculateTotal_PricesOnly(its) ==
    IF its = <<>> THEN 0
    ELSE LET RECURSIVE prices(_)
             prices(s) == IF s = <<>> THEN 0
                          ELSE prices(SubSeq(s, 1, Len(s) - 1)) + Number(s[Len(s)].price)
         IN  prices(its)

RECURSIVE calculateTotal(_)
\* items.reduce((sum, item) => sum + Number(item.quantity) * Number(item.price), 0)
calculateTotal(its) ==
    IF its = <<>> THEN 0
    ELSE calculateTotal(SubSeq(its, 1, Len(its) - 1))
            + Number(its[Len(its)].quantity) * Number(its[Len(its)].price)

\* items.map(i => ({...i, quantity: Number(i.quantity), price: Number(i.price)}))
savedItems(its) ==
    [k \in DOMAIN its |->
        [id |-> its[k].id, quantity |-> Number(its[k].quantity),
         price |-> Number(its[k].price)]]

\* setItems(initialData.items)
loadedItems(its) ==
    [k \in DOMAIN its |->
        [id |-> its[k].id, quantity |-> Typed(its[k].quantity),
         price |-> Typed(its[k].price)]]

\* The default formData of useState; date and dueDate are today's and the
\* date a week later, modelled by the (year, month) of the clock.
DefaultForm ==
    [direction |-> "outgoing", clientName |-> "", clientEmail |-> "",
     date |-> [year |-> today.year, month |-> today.month],
     dueDate |-> [year |-> today.year, month |-> today.month],
     status |-> "draft", notes |-> ""]

\* useEffect: setFormData({...initialData, direction: ..., date: ..., dueDate: ...})
FormOf(inv) ==
    [direction |-> inv.direction, clientName |-> inv.clientName,
     clientEmail |-> inv.clientEmail, date |-> inv.date,
     dueDate |-> inv.dueDate, status |-> inv.status, notes |-> inv.notes]

\* mutant: the userId of the record being edited is kept
invoiceToSave_KeepsOwner(initialData, userId, fd, its) ==
    [id |-> IF initialData # <<>> /\ initialData[1].id # EmptyId
            THEN initialData[1].id ELSE TempId,
     userId |-> IF initialData # <<>> THEN initialData[1].userId ELSE userId,
     createdAt |-> IF initialData # <<>> THEN initialData[1].createdAt ELSE 0,
     direction |-> fd.direction,
     clientName |-> fd.clientName,
     clientEmail |-> fd.clientEmail,
     date |-> fd.date,
     dueDate |-> fd.dueDate,
     status |-> fd.status,
     items |-> savedItems(its),
     notes |-> fd.notes,
     total |-> calculateTotal(its)]

\* The invoiceToSave of handleSubmit.  createdAt of a new invoice is the
\* client's clock, which the backend never stores: 0.
invoiceToSave(initialData, userId, fd, its) ==
    [id |-> IF initialData # <<>> /\ initialData[1].id # EmptyId
            THEN initialData[1].id ELSE TempId,
     userId |-> userId,
     createdAt |-> IF initialData # <<>> THEN initialData[1].createdAt ELSE 0,
     direction |-> fd.direction,
     clientName |-> fd.clientName,
     clientEmail |-> fd.clientEmail,
     date |-> fd.date,
     dueDate |-> fd.dueDate,
     status |-> fd.status,
     items |-> savedItems(its),
     notes |-> fd.notes,
     total |-> calculateTotal(its)]

\* handleSubmit returns before saving
submitBlocked(fd, its) == fd.clientName = "" \/ Len(its) = 0

\* useEffect([initialData]) after the editor is mounted with `initialData`
editorMounted(initialData) ==
    IF initialData # <<>>
    THEN /\ formData' = FormOf(initialData[1])
         /\ items' = loadedItems(initialData[1].items)
    ELSE /\ formData' = DefaultForm
         /\ \E id \in ItemIds : items' = <<NewItem(id)>>

\* handleInputChange(field, value), for the fields the properties read
handleInputChange ==
    /\ isEditing
    /\ \/ \E v \in {"", "Acme"} : formData' = [formData EXCEPT !.clientName = v]
       \/ \E v \in InvoiceStatus : formData' = [formData EXCEPT !.status = v]
       \/ \E v \in Direction : formData' = [formData EXCEPT !.direction = v]
    /\ formData' # formData
    /\ saved' = <<>>
    /\ UNCHANGED <<items, invoices, today, dashVars, appVars, importVars,
                   flowVars, authVars>>

\* handleItemChange(id, field, value): every item with that id is changed
handleItemChange ==
    /\ isEditing
    /\ \E id \in ItemIds :
        \/ \E v \in QuantityInputs :
            items' = [k \in DOMAIN items |->
                        IF items[k].id = id
                        THEN [items[k] EXCEPT !.quantity = v] ELSE items[k]]
        \/ \E v \in PriceInputs :
            items' = [k \in DOMAIN items |->
                        IF items[k].id = id
                        THEN [items[k] EXCEPT !.price = v] ELSE items[k]]
    /\ items' # items
    /\ saved' = <<>>
    /\ UNCHANGED <<formData, invoices, today, dashVars, appVars, importVars,
                   flowVars, authVars>>

addItem ==
    /\ isEditing
    /\ Len(items) < MaxItems
    /\ \E id \in ItemIds : items' = Append(items, NewItem(id))
    /\ saved' = <<>>
    /\ UNCHANGED <<formData, invoices, today, dashVars, appVars, importVars,
                   flowVars, authVars>>

\* removeItem(id): nothing happens when one item is left
removeItem ==
    /\ isEditing
    /\ Len(items) > 1
    /\ \E id \in ItemIds : items' = SelectSeq(items, LAMBDA item : item.id # id)
    /\ items' # items
    /\ saved' = <<>>
    /\ UNCHANGED <<formData, invoices, today, dashVars, appVars, importVars,
                   flowVars, authVars>>

----------------------------------------------------------------------------
(* EditorSpec: the InvoiceEditor alone, opened on a new invoice or on one  *)
(* of two stored ones; onSave only records what it is handed.              *)

ThisMonth == [year |-> SpecYear, month |-> SpecMonth]

\* Two invoices as getInvoices returns them: one saved from the editor, one
\* imported with a total and no items.
EditorInvoices ==
    << [id |-> BackendId(2), userId |-> "alice", createdAt |-> 2,
        direction |-> "incoming", clientName |-> "Bolt", clientEmail |-> "",
        date |-> ThisMonth, dueDate |-> ThisMonth, status |-> "paid",
        items |-> <<>>, notes |-> "", total |-> 2],
       [id |-> BackendId(1), userId |-> "alice", createdAt |-> 1,
        direction |-> "outgoing", clientName |-> "Acme",
        clientEmail |-> "ap@acme", date |-> ThisMonth, dueDate |-> ThisMonth,
        status |-> "pending",
        items |-> <<[id |-> 1, quantity |-> 2, price |-> 3]>>,
        notes |-> "net 30", total |-> 6] >>

EditorInit ==
    /\ invoices = EditorInvoices
    /\ today = SpecStart
    /\ Rendered(invoices, today)
    /\ user = "alice"
    /\ rows = {}
    /\ nextId = 1
    /\ dbClock = 1
    /\ isEditing = FALSE
    /\ currentInvoice = <<>>
    /\ fetched = <<>>
    /\ deleted = <<>>
    /\ view = "invoices"
    /\ error = NoError
    /\ isLoadingData = FALSE
    /\ inflight = <<>>
    /\ latest = <<>>
    /\ confirmed = <<>>
    /\ EditorIdle /\ ImportIdle /\ AuthIdle

\* onCreate / onEdit of InvoiceList, as App handles them
onCreateOrEdit ==
    /\ ~isEditing
    /\ user # NoUser
    /\ view = "invoices"
    /\ \/ currentInvoice' = <<>>
       \/ \E i \in DOMAIN invoices : currentInvoice' = <<invoices[i]>>
    /\ isEditing' = TRUE

\* onCreate / onEdit, and the editor is mounted
OpenEditor ==
    /\ onCreateOrEdit
    /\ editorMounted(currentInvoice')
    /\ saved' = <<>>
    /\ deleted' = <<>>
    /\ alerts' = <<>>
    /\ confirmed' = <<>>
    /\ UNCHANGED <<invoices, today, dashVars, user, rows, nextId, dbClock,
                   fetched, sheet, importUser, imported, exported, view, error, isLoadingData, inflight, latest,
                   authVars>>

\* onCancel
CancelEditor ==
    /\ isEditing
    /\ isEditing' = FALSE
    /\ currentInvoice' = <<>>
    /\ saved' = <<>>
    /\ deleted' = <<>>
    /\ alerts' = <<>>
    /\ confirmed' = <<>>
    /\ UNCHANGED <<formData, items, invoices, today, dashVars, user, rows,
                   nextId, dbClock, fetched, sheet, importUser, imported,
                   exported, view, error, isLoadingData, inflight, latest, authVars>>

\* handleSubmit with an onSave that keeps the editor open
SubmitOnly ==
    /\ isEditing
    /\ ~submitBlocked(formData, items)
    /\ saved' = <<invoiceToSave(currentInvoice, user, formData, items)>>
    /\ UNCHANGED <<formData, items, invoices, today, dashVars, appVars,
                   importVars,
                   flowVars, authVars>>

EditorNext ==
    \/ OpenEditor \/ CancelEditor \/ handleInputChange \/ handleItemChange
    \/ addItem \/ removeItem \/ SubmitOnly

EditorSpec == EditorInit /\ [][EditorNext]_vars

----------------------------------------------------------------------------
(* services/storage.ts: the table `invoices` of the backend.  A row is the *)
(* id and created_at the backend generates, and the ten columns of         *)
(* dbPayload.  The schema and the access policies of the table are not in  *)
(* the sources: any call may be refused.                                   *)

MaxRows == 3            \* ids the backend generates in one behaviour

MaxSheetRows == 2       \* rows of one imported file, invoices of one bulk save

dbPayload(invoice) ==
    [user_id |-> invoice.userId, direction |-> invoice.direction,
     client_name |-> invoice.clientName, client_email |-> invoice.clientEmail,
     date |-> invoice.date, due_date |-> invoice.dueDate,
     status |-> invoice.status, items |-> invoice.items,
     notes |-> invoice.notes, total |-> invoice.total]

\* the mapping of a row to an Invoice, in getInvoices and saveInvoice
fromRow(row) ==
    [id |-> row.id, userId |-> row.cols.user_id,
     direction |-> row.cols.direction, clientName |-> row.cols.client_name,
     clientEmail |-> row.cols.client_email, date |-> row.cols.date,
     dueDate |-> row.cols.due_date, status |-> row.cols.status,
     items |-> row.cols.items, notes |-> row.cols.notes,
     total |-> row.cols.total, createdAt |-> row.created_at]

\* .eq('user_id', userId)
ownedBy(table, userId) == { r \in table : r.cols.user_id = userId }

\* .order('created_at', { ascending: false }): every order of the rows in
\* which created_at never increases (rows of one insert share it)
newestFirst(S) ==
    { s \in [1..Cardinality(S) -> S] :
        /\ \A i, j \in DOMAIN s : s[i] = s[j] => i = j
        /\ \A i, j \in DOMAIN s : i < j => s[i].created_at >= s[j].created_at }

\* mutant: ascending order
getInvoices_OldestFirst(table, userId) ==
    { [k \in DOMAIN s |-> fromRow(s[Len(s) + 1 - k])] :
        s \in newestFirst(ownedBy(table, userId)) }

\* the lists getInvoices(userId) can return
getInvoices(table, userId) ==
    { [k \in DOMAIN s |-> fromRow(s[k])] :
        s \in newestFirst(ownedBy(table, userId)) }

isRealId(invoice) == invoice.id # EmptyId /\ ~startsWithInv(invoice.id)

\* mutant: every save inserts
saveInvoice_AlwaysInserts(table, invoice, id, now) ==
    table \cup {[id |-> id, created_at |-> now, cols |-> dbPayload(invoice)]}

\* mutant: the update leaves the notes column alone
saveInvoice_KeepsNotes(table, invoice, id, now) ==
    IF isRealId(invoice)
    THEN { IF r.id = invoice.id
           THEN [r EXCEPT !.cols = [dbPayload(invoice) EXCEPT
                                        !.notes = r.cols.notes]]
           ELSE r : r \in table }
    ELSE table \cup {[id |-> id, created_at |-> now, cols |-> dbPayload(invoice)]}

\* The table after saveInvoice(invoice); `id` and `now` are what the
\* backend generates for an inserted row.
saveInvoice(table, invoice, id, now) ==
    IF isRealId(invoice)
    THEN { IF r.id = invoice.id THEN [r EXCEPT !.cols = dbPayload(invoice)]
           ELSE r : r \in table }
    ELSE table \cup {[id |-> id, created_at |-> now, cols |-> dbPayload(invoice)]}

\* .single() of the update finds no row: saveInvoice throws
updatesNoRow(table, invoice) ==
    isRealId(invoice) /\ \A r \in table : r.id # invoice.id

\* The table after saveInvoicesBulk(invs): one insert of Len(invs) rows
\* mutant: an upsert on id, a line whose id is a row's replaces that row
saveInvoicesBulk_ById(table, invs, firstId, now) ==
    { r \in table : \A k \in DOMAIN invs : invs[k].id # r.id }
        \cup { [id |-> IF \E r \in table : r.id = invs[k].id
                       THEN invs[k].id
                       ELSE BackendId(firstId + k - 1),
                created_at |-> now,
                cols |-> dbPayload(invs[k])] : k \in DOMAIN invs }

saveInvoicesBulk(table, invs, firstId, now) ==
    table \cup { [id |-> BackendId(firstId + k - 1), created_at |-> now,
                  cols |-> dbPayload(invs[k])] : k \in DOMAIN invs }

\* mutant: .eq('id', ...) compared with the owner's rows
deleteInvoice_WholeAccount(table, invoiceId) ==
    { r \in table : \A q \in table :
        q.id = invoiceId => r.cols.user_id # q.cols.user_id }

\* The table after deleteInvoice(invoiceId)
deleteInvoice(table, invoiceId) == { r \in table : r.id # invoiceId }

----------------------------------------------------------------------------
(* StorageSpec: the four data services called directly, with any user id,  *)
(* any invoice the editor can build and any id.                            *)

LastMonth == [year |-> SpecYear, month |-> SpecMonth - 1]

\* Two filled-in editors that differ in every field
Submissions ==
    { [form |-> [direction |-> "outgoing", clientName |-> "Acme",
                 clientEmail |-> "ap@acme", date |-> ThisMonth,
                 dueDate |-> ThisMonth, status |-> "pending",
                 notes |-> "net 30"],
       items |-> <<[id |-> 1, quantity |-> Typed(2), price |-> Typed(3)]>>],
      [form |-> [direction |-> "incoming", clientName |-> "Bolt",
                 clientEmail |-> "", date |-> LastMonth,
                 dueDate |-> LastMonth, status |-> "paid", notes |-> ""],
       items |-> <<[id |-> 1, quantity |-> Typed(1), price |-> Typed(3)],
                   [id |-> 2, quantity |-> Typed(1), price |-> Typed(0)]>>] }

\* an id no row has
GhostId == BackendId(MaxRows + 1)

\* The invoices handleSubmit builds for `userId` when the editor was opened
\* on nothing or on a row of the table
EditorOutputs(table, userId) ==
    { invoiceToSave(init, userId, sub.form, sub.items) :
        init \in {<<>>} \cup { <<fromRow(r)>> : r \in table },
        sub \in Submissions }

StorageInit ==
    /\ invoices = <<>>
    /\ today = SpecStart
    /\ Rendered(invoices, today)
    /\ AppIdle /\ EditorIdle /\ ImportIdle /\ FlowIdle /\ AuthIdle

CallGetInvoices ==
    /\ \E userId \in Users : \E data \in getInvoices(rows, userId) :
        fetched' = <<[userId |-> userId, data |-> data]>>
    /\ saved' = <<>>
    /\ deleted' = <<>>
    /\ UNCHANGED <<invoices, today, dashVars, user, rows, nextId, dbClock,
                   isEditing, currentInvoice, formData, items, importVars,
                   flowVars, authVars>>

CallSaveInvoice ==
    /\ \E userId \in Users : \E built \in EditorOutputs(rows, userId) :
       \E id \in {built.id, EmptyId, GhostId} :
        LET invoice == [built EXCEPT !.id = id]
        IN  /\ isRealId(invoice) \/ nextId <= MaxRows
            /\ \/ /\ ~updatesNoRow(rows, invoice)
                  /\ rows' = saveInvoice(rows, invoice, BackendId(nextId), dbClock)
                  /\ nextId' = IF isRealId(invoice) THEN nextId ELSE nextId + 1
                  /\ dbClock' = IF isRealId(invoice) THEN dbClock ELSE dbClock + 1
                  /\ saved' = <<invoice>>
               \/ /\ saved' = <<>>           \* the backend refuses, or no row
                  /\ UNCHANGED <<rows, nextId, dbClock>>
    /\ fetched' = <<>>
    /\ deleted' = <<>>
    /\ UNCHANGED <<invoices, today, dashVars, user, isEditing, currentInvoice,
                   formData, items, importVars,
                   flowVars, authVars>>

CallSaveInvoicesBulk ==
    /\ \E userId \in Users : \E n \in 1..MaxSheetRows :
       \E invs \in [1..n -> EditorOutputs({}, userId)] :
        /\ nextId + n - 1 <= MaxRows
        /\ \/ /\ rows' = saveInvoicesBulk(rows, invs, nextId, dbClock)
              /\ nextId' = nextId + n
              /\ dbClock' = dbClock + 1
           \/ UNCHANGED <<rows, nextId, dbClock>>
    /\ fetched' = <<>>
    /\ saved' = <<>>
    /\ deleted' = <<>>
    /\ UNCHANGED <<invoices, today, dashVars, user, isEditing, currentInvoice,
                   formData, items, importVars,
                   flowVars, authVars>>

CallDeleteInvoice ==
    /\ \E id \in { r.id : r \in rows } \cup {GhostId} :
        \/ /\ rows' = deleteInvoice(rows, id)
           /\ deleted' = <<id>>
        \/ /\ deleted' = <<>>
           /\ UNCHANGED rows
    /\ fetched' = <<>>
    /\ saved' = <<>>
    /\ UNCHANGED <<invoices, today, dashVars, user, nextId, dbClock, isEditing,
                   currentInvoice, formData, items, importVars,
                   flowVars, authVars>>

StorageNext ==
    \/ CallGetInvoices \/ CallSaveInvoice \/ CallSaveInvoicesBulk
    \/ CallDeleteInvoice

StorageSpec == StorageInit /\ [][StorageNext]_vars

----------------------------------------------------------------------------
(* InvoiceList: the import of a spreadsheet (handleFileChange).  A row of  *)
(* the sheet has the columns of an exported invoice; a cell can be absent, *)
(* and the cells of `total` and `items` can hold any text.                 *)

Missing == "undefined"                      \* an absent cell reads undefined

\* a date text that new Date() cannot parse: an Invalid Date, whose
\* getMonth() and getFullYear() equal no month and no year
NotADate == [year |-> -1, month |-> -1]

NumberCell(n) == [kind |-> "number", num |-> n]

TextCell == [kind |-> "text", num |-> 0]    \* text that is no number

NoCell == [kind |-> "missing", num |-> 0]

\* Number(row.total) || 0
totalOf(cell) == IF cell.kind = "number" THEN cell.num ELSE 0

JsonCell(its) == [kind |-> "json", value |-> its]   \* JSON.stringify(items)

GarbageCell == [kind |-> "garbage", value |-> <<>>] \* text JSON.parse rejects

NoItemsCell == [kind |-> "missing", value |-> <<>>]

\* JSON.parse throws on a row of the sheet
parseThrows(data) == \E k \in DOMAIN data : data[k].items.kind = "garbage"

\* mutant: rows without a client name are left out
importedInvoices_NamedOnly(data) ==
    LET named == SelectSeq(data, LAMBDA row : row.clientName # Missing)
    IN  [k \in DOMAIN named |->
            [named[k] EXCEPT
                !.direction = IF @ = Missing THEN "outgoing" ELSE @,
                !.items = @.value,
                !.total = totalOf(@)]]

\* data.map(row => ({...row, direction: row.direction || 'outgoing',
\*   items: row.items ? JSON.parse(row.items) : [],
\*   total: Number(row.total) || 0, createdAt: row.createdAt || now}))
importedInvoices(data) ==
    [k \in DOMAIN data |->
        [data[k] EXCEPT
            !.direction = IF @ = Missing THEN "outgoing" ELSE @,
            !.items = @.value,
            !.total = totalOf(@)]]

Alert(text, n) == [text |-> text, n |-> n]

\* invoicesWithUser of handleImportInvoices
invoicesWithUser(invs, userId) ==
    [k \in DOMAIN invs |-> [invs[k] EXCEPT !.userId = userId]]

----------------------------------------------------------------------------
(* App.tsx: the handlers.  Each handler runs to its end in one step; the   *)
(* reader's onload of an import is a callback of its own, so other events  *)
(* are handled between the choice of the file and its load.                *)

AppRows == 2            \* ids the backend generates in one behaviour of the App

MaxInflight == 2        \* fetchInvoices calls in flight at a time

FetchRows == 1          \* ids the backend generates while fetches overlap

\* fetchInvoices(userId) on the table `table`: setInvoices(data), or the
\* error is caught and the list stays
fetchInvoices(userId, table) ==
    /\ \/ /\ invoices' \in getInvoices(table, userId)
          /\ fetched' = <<[userId |-> userId, data |-> invoices']>>
          /\ error' = NoError
       \/ /\ invoices' = invoices
          /\ fetched' = <<>>
          /\ error' = CouldNotLoad
    /\ isLoadingData' = FALSE

\* The auth subscription reports a session (and handleLogin after a login)
SignedIn ==
    /\ user = NoUser
    /\ \E u \in Users :
        /\ user' = u
        /\ fetchInvoices(u, rows)
    /\ view' = "dashboard"
    /\ saved' = <<>>
    /\ deleted' = <<>>
    /\ alerts' = <<>>
    /\ confirmed' = <<>>
    /\ UNCHANGED <<today, dashVars, rows, nextId, dbClock, isEditing,
                   currentInvoice, formData, items, sheet, importUser,
                   imported, exported, inflight, latest, authVars>>

\* The auth subscription reports no session (after handleLogout); the
\* sign-in screen is mounted afresh
SignedOut ==
    /\ user # NoUser
    /\ user' = NoUser
    /\ invoices' = <<>>
    /\ fetched' = <<>>
    /\ saved' = <<>>
    /\ deleted' = <<>>
    /\ alerts' = <<>>
    /\ isLogin' = TRUE
    /\ authError' = ""
    /\ isLoading' = FALSE
    /\ authRequest' = <<>>
    /\ confirmed' = <<>>
    /\ UNCHANGED <<today, dashVars, rows, nextId, dbClock, isEditing,
                   currentInvoice, formData, items, sheet, importUser,
                   imported, exported, view, error, isLoadingData, inflight, latest>>

\* handleSubmit of the mounted editor, filled in as one of Submissions,
\* calls onSave = handleSaveInvoice
handleSaveInvoice ==
    /\ user # NoUser
    /\ isEditing
    /\ \E sub \in Submissions :
        LET invoice == invoiceToSave(currentInvoice, user, sub.form, sub.items)
        IN  \/ /\ ~updatesNoRow(rows, invoice)
               /\ isRealId(invoice) \/ nextId <= AppRows
               /\ rows' = saveInvoice(rows, invoice, BackendId(nextId), dbClock)
               /\ nextId' = IF isRealId(invoice) THEN nextId ELSE nextId + 1
               /\ dbClock' = IF isRealId(invoice) THEN dbClock ELSE dbClock + 1
               /\ saved' = <<invoice>>
               /\ fetchInvoices(user, rows')
               /\ isEditing' = FALSE
               /\ currentInvoice' = <<>>
               /\ view' = "invoices"
               /\ alerts' = <<>>
            \/ /\ alerts' = <<Alert("Failed to save invoice.", 0)>>
               /\ saved' = <<>>
               /\ UNCHANGED <<rows, nextId, dbClock, invoices, fetched,
                              isEditing, currentInvoice, view, error,
                              isLoadingData>>
    /\ deleted' = <<>>
    /\ confirmed' = <<>>
    /\ UNCHANGED <<today, dashVars, user, formData, items, sheet, importUser,
                   imported, exported, inflight, latest, authVars>>

\* handleDeleteInvoice(id) from a line of the list; window.confirm answers
\* `ok`
handleDeleteInvoice ==
    /\ user # NoUser
    /\ ~isEditing
    /\ view = "invoices"
    /\ \E i \in DOMAIN invoices, ok \in BOOLEAN :
        /\ confirmed' = <<ok>>
        /\ \/ /\ ok
              /\ rows' = deleteInvoice(rows, invoices[i].id)
              /\ deleted' = <<invoices[i].id>>
              /\ fetchInvoices(user, rows')
              /\ alerts' = <<>>
           \/ /\ ok
              /\ alerts' = <<Alert("Failed to delete.", 0)>>
              /\ deleted' = <<>>
              /\ UNCHANGED <<rows, invoices, fetched, error, isLoadingData>>
           \/ /\ ~ok
              /\ alerts' = <<>>
              /\ deleted' = <<>>
              /\ UNCHANGED <<rows, invoices, fetched, error, isLoadingData>>
    /\ saved' = <<>>
    /\ UNCHANGED <<today, dashVars, user, nextId, dbClock, isEditing,
                   currentInvoice, formData, items, sheet, importUser,
                   imported, exported, view, inflight, latest, authVars>>

\* handleFileChange with a file whose first sheet reads as `data`: the
\* reader is started; its onload keeps the onImport of this render
handleFileChange(data) ==
    /\ user # NoUser
    /\ ~isEditing
    /\ view = "invoices"
    /\ importUser = NoUser
    /\ sheet' = data
    /\ importUser' = user
    /\ imported' = <<>>
    /\ alerts' = <<>>
    /\ saved' = <<>>
    /\ deleted' = <<>>
    /\ confirmed' = <<>>
    /\ UNCHANGED <<invoices, today, dashVars, user, rows, nextId, dbClock,
                   isEditing, currentInvoice, fetched, formData, items,
                   exported, view, error, isLoadingData, inflight, latest, authVars>>

\* reader.onload: the rows are mapped and handed to onImport, which is
\* handleImportInvoices with `user` = importUser
readerOnload ==
    /\ importUser # NoUser
    /\ importUser' = NoUser
    /\ IF parseThrows(sheet)
       THEN /\ alerts' = <<Alert("Failed to import file.", 0)>>
            /\ UNCHANGED <<imported, rows, nextId, dbClock, invoices, fetched,
                           error, isLoadingData>>
       ELSE IF Len(sheet) = 0
       THEN /\ alerts' = <<Alert("No valid invoice data found in file.", 0)>>
            /\ UNCHANGED <<imported, rows, nextId, dbClock, invoices, fetched,
                           error, isLoadingData>>
       ELSE /\ imported' = importedInvoices(sheet)
            /\ \/ /\ nextId + Len(sheet) - 1 <= AppRows
                  /\ rows' = saveInvoicesBulk(rows,
                                invoicesWithUser(imported', importUser),
                                nextId, dbClock)
                  /\ nextId' = nextId + Len(sheet)
                  /\ dbClock' = dbClock + 1
                  /\ fetchInvoices(importUser, rows')
                  /\ alerts' = <<Alert("Successfully imported", Len(sheet))>>
               \/ /\ alerts' = <<Alert("Failed to import.", 0),
                                 Alert("Successfully imported", Len(sheet))>>
                  /\ UNCHANGED <<rows, nextId, dbClock, invoices, fetched,
                                 error, isLoadingData>>
    /\ saved' = <<>>
    /\ deleted' = <<>>
    /\ confirmed' = <<>>
    /\ UNCHANGED <<today, dashVars, user, isEditing, currentInvoice, formData,
                   items, sheet, exported, view, inflight, latest, authVars>>

\* onNavigate of the layout
onNavigate ==
    /\ user # NoUser
    /\ \E v \in Views : view' = v
    /\ isEditing' = FALSE
    /\ saved' = <<>>
    /\ deleted' = <<>>
    /\ alerts' = <<>>
    /\ confirmed' = <<>>
    /\ UNCHANGED <<invoices, today, dashVars, user, rows, nextId, dbClock,
                   currentInvoice, fetched, formData, items, sheet, importUser,
                   imported, exported, error, isLoadingData, inflight, latest,
                   authVars>>

----------------------------------------------------------------------------
(* AppSpec: sign-in and sign-out, the editor's save, delete and import of  *)
(* well-formed files over the backend table.                               *)

\* A row as handleExport writes it: it carries the id, the owner and the
\* creation time of the exported invoice
ExportedRow ==
    [id |-> BackendId(1), userId |-> "bob", createdAt |-> 1,
     direction |-> "incoming", clientName |-> "Bolt", clientEmail |-> "",
     date |-> LastMonth, dueDate |-> LastMonth, status |-> "paid",
     items |-> JsonCell(<<[id |-> 1, quantity |-> 1, price |-> 3]>>),
     notes |-> "", total |-> NumberCell(3)]

\* A row typed by hand: no id, no owner, nothing optional
TypedRow ==
    [id |-> EmptyId, userId |-> Missing, createdAt |-> 0,
     direction |-> Missing, clientName |-> "Acme", clientEmail |-> Missing,
     date |-> ThisMonth, dueDate |-> ThisMonth, status |-> "pending",
     items |-> NoItemsCell, notes |-> Missing, total |-> NumberCell(2)]

AppSheets == { <<ExportedRow>>, <<TypedRow, ExportedRow>> }

AppInit ==
    /\ invoices = <<>>
    /\ today = SpecStart
    /\ Rendered(invoices, today)
    /\ AppIdle /\ EditorIdle /\ ImportIdle /\ FlowIdle /\ AuthIdle

\* onCreate / onEdit; the fields of the mounted editor are not followed
\* here, handleSaveInvoice draws what it submits from Submissions
AppOpenEditor ==
    /\ onCreateOrEdit
    /\ saved' = <<>>
    /\ deleted' = <<>>
    /\ alerts' = <<>>
    /\ confirmed' = <<>>
    /\ UNCHANGED <<invoices, today, dashVars, user, rows, nextId, dbClock,
                   fetched, formData, items, sheet, importUser, imported,
                   exported, view, error, isLoadingData, inflight, latest, authVars>>

AppNext ==
    \/ SignedIn \/ SignedOut \/ onNavigate \/ AppOpenEditor \/ CancelEditor
    \/ handleSaveInvoice \/ handleDeleteInvoice
    \/ \E data \in AppSheets : handleFileChange(data)
    \/ readerOnload

AppSpec == AppInit /\ [][AppNext]_vars

----------------------------------------------------------------------------
(* ImportSpec: files with absent and malformed cells are imported and the  *)
(* Dashboard is rendered over what getInvoices returns afterwards.         *)

\* TypedRow with one cell absent or malformed.  An absent date cell reads
\* undefined, which new Date() cannot parse either.
ImportRows ==
    { TypedRow,
      [TypedRow EXCEPT !.clientName = Missing],
      [TypedRow EXCEPT !.date = NotADate],
      [TypedRow EXCEPT !.dueDate = NotADate],
      [TypedRow EXCEPT !.status = Missing],
      [TypedRow EXCEPT !.total = TextCell],
      [TypedRow EXCEPT !.total = NoCell],
      [TypedRow EXCEPT !.items = GarbageCell] }

ImportSheets ==
    UNION { [1..n -> ImportRows] : n \in 0..MaxSheetRows }

\* The Dashboard is shown (view 'dashboard') with the list in state
RenderDashboard ==
    /\ user # NoUser
    /\ ~isEditing
    /\ view = "dashboard"
    /\ invoices' = invoicesAfterRender(invoices)
    /\ Dashboard(invoices', today)
    /\ UNCHANGED <<today, appVars, editorVars, importVars,
                   flowVars, authVars>>

ImportInit ==
    /\ invoices = <<>>
    /\ today = SpecStart
    /\ Rendered(invoices, today)
    /\ AppIdle /\ EditorIdle /\ ImportIdle /\ FlowIdle /\ AuthIdle

ImportNext ==
    \/ SignedIn
    \/ onNavigate
    \/ \E data \in ImportSheets : handleFileChange(data)
    \/ readerOnload
    \/ RenderDashboard

ImportSpec == ImportInit /\ [][ImportNext]_vars

----------------------------------------------------------------------------
(* AuthSpec: the sign-in screen. The form is submitted in either mode,     *)
(* the backend answers, and a logged-in user logs out again.               *)

\* `message` of the errors the auth backend returns; the first has none
ErrorMessages == {"", "Invalid login credentials"}

\* What signInWithPassword and signUp resolve to: { data: { user, session },
\* error }. `failed` is `error` being set, `message` its text.
AuthAnswer(failed, message, u, session) ==
    [failed |-> failed, message |-> message, user |-> u, session |-> session]

SignInAnswers ==
    { AuthAnswer(TRUE, m, NoUser, FALSE) : m \in ErrorMessages }
        \cup { AuthAnswer(FALSE, "", NoUser, FALSE) }
        \cup { AuthAnswer(FALSE, "", u, TRUE) : u \in Users }

SignUpAnswers ==
    SignInAnswers \cup { AuthAnswer(FALSE, "", u, FALSE) : u \in Users }

\* How an async call ends: it throws an Error with `message`, or returns
Throws(message) == [threw |-> TRUE, message |-> message, user |-> NoUser]

Returns(u) == [threw |-> FALSE, message |-> "", user |-> u]

CheckYourEmail ==
    "Account created! Please check your email to confirm your account before logging in."

login(answer) ==
    IF answer.failed THEN Throws(answer.message)
    ELSE IF answer.user = NoUser THEN Throws("No user data returned")
    ELSE Returns(answer.user)

\* mutant: the user is returned whether or not there is a session
signup_IgnoresSession(answer) ==
    IF answer.failed THEN Throws(answer.message)
    ELSE IF answer.user = NoUser THEN Throws("No user created")
    ELSE Returns(answer.user)

signup(answer) ==
    IF answer.failed THEN Throws(answer.message)
    ELSE IF answer.user = NoUser THEN Throws("No user created")
    ELSE IF ~answer.session THEN Throws(CheckYourEmail)
    ELSE Returns(answer.user)

\* err.message || 'An error occurred'
errorText(message) == IF message = "" THEN "An error occurred" ELSE message

Names == {"", "Ann"}

Passwords == {"", "secret"}

\* One submission of the form: the mode and the fields it was made with,
\* whether the request was sent, whether handleSubmit has ended and, once
\* the backend has answered, its answer
Submission(mode, name, password, sent, done, answer) ==
    [isLogin |-> mode, name |-> name, password |-> password, sent |-> sent,
     done |-> done, answer |-> answer]

NoAnswer == AuthAnswer(FALSE, "", NoUser, FALSE)

\* The link under the form
toggleMode ==
    /\ user = NoUser
    /\ isLogin' = ~isLogin
    /\ authError' = ""
    /\ authRequest' = IF isLoading THEN authRequest ELSE <<>>
    /\ UNCHANGED <<invoices, today, dashVars, appVars, editorVars, importVars,
                   flowVars, isLoading>>

\* handleSubmit up to its await: in signup mode an empty name or password
\* throws before anything is sent. The submit button shows isLoading and
\* takes no second submission meanwhile.
handleSubmit ==
    /\ user = NoUser
    /\ ~isLoading
    /\ \E name \in Names, password \in Passwords :
        IF ~isLogin /\ (name = "" \/ password = "")
        THEN /\ authError' = IF name = "" THEN "Name is required"
                             ELSE "Password is required"
             /\ isLoading' = FALSE
             /\ authRequest' =
                    <<Submission(isLogin, name, password, FALSE, TRUE, NoAnswer)>>
        ELSE /\ authError' = ""
             /\ isLoading' = TRUE
             /\ authRequest' =
                    <<Submission(isLogin, name, password, TRUE, FALSE, NoAnswer)>>
    /\ UNCHANGED <<invoices, today, dashVars, appVars, editorVars, importVars,
                   flowVars, isLogin>>

\* handleLogin(loggedInUser), the onLogin of the screen
handleLogin(loggedInUser) ==
    /\ user' = loggedInUser
    /\ fetchInvoices(loggedInUser, rows)
    /\ view' = "dashboard"

\* handleSubmit from its await on: login or signup ends on the backend's
\* answer
handleSubmitResumes ==
    /\ authRequest # <<>>
    /\ ~authRequest[1].done
    /\ \E answer \in IF authRequest[1].isLogin THEN SignInAnswers
                     ELSE SignUpAnswers :
        LET outcome == IF authRequest[1].isLogin THEN login(answer)
                       ELSE signup(answer)
        IN  /\ authRequest' = <<[authRequest[1] EXCEPT !.done = TRUE,
                                                       !.answer = answer]>>
            /\ IF outcome.threw
               THEN /\ authError' = errorText(outcome.message)
                    /\ UNCHANGED <<user, invoices, fetched, view, error,
                                   isLoadingData>>
               ELSE /\ handleLogin(outcome.user)
                    /\ UNCHANGED authError
    /\ isLoading' = FALSE
    /\ UNCHANGED <<today, dashVars, rows, nextId, dbClock, isEditing,
                   currentInvoice, deleted, editorVars, importVars, inflight,
                   latest, confirmed, isLogin>>

AuthInit ==
    /\ invoices = <<>>
    /\ today = SpecStart
    /\ Rendered(<<>>, today)
    /\ AppIdle /\ EditorIdle /\ ImportIdle /\ FlowIdle /\ AuthIdle

AuthNext ==
    \/ toggleMode
    \/ handleSubmit
    \/ handleSubmitResumes
    \/ SignedOut

AuthSpec == AuthInit /\ [][AuthNext]_vars

----------------------------------------------------------------------------
(* FetchSpec: the handlers of App taken apart at `await getInvoices`. A     *)
(* fetchInvoices call starts, the backend answers it from the table as it  *)
(* is at that moment, and the call resumes when the answer arrives; calls  *)
(* started by different handlers overlap and resume in any order. The      *)
(* backend calls that write (saveInvoice, deleteInvoice) are one step with *)
(* the handler that awaits them.                                           *)

\* One fetchInvoices(userId) call. `andThen` is what the caller does after
\* `await fetchInvoices`: "close" in handleSaveInvoice, nothing elsewhere.
\* `alone`: no other call has been in flight since this one started.
\* `newest`: no call has started after this one.
FetchCall(userId, andThen, alone) ==
    [userId |-> userId, andThen |-> andThen, alone |-> alone,
     newest |-> TRUE, answered |-> FALSE, failed |-> FALSE, data |-> <<>>]

\* fetchInvoices up to `await getInvoices(userId)`
fetchInvoicesStarts(userId, andThen) ==
    LET call == FetchCall(userId, andThen, inflight = <<>>)
    IN  /\ Len(inflight) < MaxInflight
        /\ isLoadingData' = TRUE
        /\ error' = NoError
        /\ inflight' = Append([i \in DOMAIN inflight |->
                                 [inflight[i] EXCEPT !.alone = FALSE,
                                                     !.newest = FALSE]],
                              call)
        /\ latest' = <<call>>

\* getInvoices of a call in flight is answered by the backend
getInvoicesAnswers ==
    /\ \E i \in DOMAIN inflight :
        /\ ~inflight[i].answered
        /\ \E call \in
                { [inflight[i] EXCEPT !.answered = TRUE, !.data = data] :
                    data \in getInvoices(rows, inflight[i].userId) }
                \cup { [inflight[i] EXCEPT !.answered = TRUE,
                                           !.failed = TRUE] } :
            /\ inflight' = [inflight EXCEPT ![i] = call]
            /\ latest' = IF call.newest THEN <<call>> ELSE latest
    /\ saved' = <<>>
    /\ deleted' = <<>>
    /\ alerts' = <<>>
    /\ confirmed' = <<>>
    /\ UNCHANGED <<invoices, today, dashVars, user, rows, nextId, dbClock,
                   isEditing, currentInvoice, fetched, formData, items, sheet,
                   importUser, imported, exported, view, error, isLoadingData,
                   authVars>>

\* the calls in flight without the one at position i
allBut(calls, i) == SubSeq(calls, 1, i - 1) \o SubSeq(calls, i + 1, Len(calls))

\* mutant: no `finally`, isLoadingData stays set
fetchInvoicesResumes_KeepsLoading(call) ==
    /\ IF call.failed
       THEN /\ error' = CouldNotLoad
            /\ UNCHANGED invoices
       ELSE /\ invoices' = call.data
            /\ UNCHANGED error
    /\ UNCHANGED isLoadingData
    /\ IF call.andThen = "close"
       THEN /\ isEditing' = FALSE
            /\ currentInvoice' = <<>>
            /\ view' = "invoices"
       ELSE UNCHANGED <<isEditing, currentInvoice, view>>

\* fetchInvoices from the await on, and what its caller does after it
fetchInvoicesResumes(call) ==
    /\ IF call.failed
       THEN /\ error' = CouldNotLoad
            /\ UNCHANGED invoices
       ELSE /\ invoices' = call.data
            /\ UNCHANGED error
    /\ isLoadingData' = FALSE
    /\ IF call.andThen = "close"
       THEN /\ isEditing' = FALSE
            /\ currentInvoice' = <<>>
            /\ view' = "invoices"
       ELSE UNCHANGED <<isEditing, currentInvoice, view>>

\* the answer to a call in flight arrives
getInvoicesReturns ==
    /\ \E i \in DOMAIN inflight :
        /\ inflight[i].answered
        /\ fetchInvoicesResumes(inflight[i])
        /\ inflight' = allBut(inflight, i)
    /\ saved' = <<>>
    /\ deleted' = <<>>
    /\ alerts' = <<>>
    /\ confirmed' = <<>>
    /\ UNCHANGED <<today, dashVars, user, rows, nextId, dbClock, fetched,
                   formData, items, sheet, importUser, imported, exported,
                   latest, authVars>>

\* The auth subscription reports a session: at sign-in, and again whenever
\* the session of the signed-in user is renewed
authChangeWithUser ==
    /\ \E u \in Users :
        /\ user \in {NoUser, u}
        /\ user' = u
        /\ fetchInvoicesStarts(u, "")
    /\ saved' = <<>>
    /\ deleted' = <<>>
    /\ alerts' = <<>>
    /\ confirmed' = <<>>
    /\ UNCHANGED <<invoices, today, dashVars, rows, nextId, dbClock, isEditing,
                   currentInvoice, fetched, formData, items, sheet, importUser,
                   imported, exported, view, authVars>>

\* handleLogin(loggedInUser), called by the sign-in screen after login
handleLoginStarts ==
    /\ \E loggedInUser \in Users :
        /\ user \in {NoUser, loggedInUser}
        /\ user' = loggedInUser
        /\ fetchInvoicesStarts(loggedInUser, "")
    /\ view' = "dashboard"
    /\ saved' = <<>>
    /\ deleted' = <<>>
    /\ alerts' = <<>>
    /\ confirmed' = <<>>
    /\ UNCHANGED <<invoices, today, dashVars, rows, nextId, dbClock, isEditing,
                   currentInvoice, fetched, formData, items, sheet, importUser,
                   imported, exported, authVars>>

\* mutant: the editor is closed without awaiting fetchInvoices
handleSaveInvoiceStarts_ClosesAtOnce ==
    /\ user # NoUser
    /\ isEditing
    /\ \E sub \in Submissions :
        LET invoice == invoiceToSave(currentInvoice, user, sub.form, sub.items)
        IN  \/ /\ ~updatesNoRow(rows, invoice)
               /\ isRealId(invoice) \/ nextId <= FetchRows
               /\ rows' = saveInvoice(rows, invoice, BackendId(nextId), dbClock)
               /\ nextId' = IF isRealId(invoice) THEN nextId ELSE nextId + 1
               /\ dbClock' = IF isRealId(invoice) THEN dbClock ELSE dbClock + 1
               /\ saved' = <<invoice>>
               /\ fetchInvoicesStarts(user, "")
               /\ isEditing' = FALSE
               /\ currentInvoice' = <<>>
               /\ view' = "invoices"
               /\ alerts' = <<>>
            \/ /\ alerts' = <<Alert("Failed to save invoice.", 0)>>
               /\ saved' = <<>>
               /\ UNCHANGED <<rows, nextId, dbClock, error, isLoadingData,
                              inflight, latest, isEditing, currentInvoice,
                              view>>
    /\ deleted' = <<>>
    /\ confirmed' = <<>>
    /\ UNCHANGED <<invoices, today, dashVars, user, fetched, formData, items,
                   sheet, importUser, imported, exported, authVars>>

\* handleSaveInvoice up to `await fetchInvoices`, called by the editor with
\* one of Submissions
handleSaveInvoiceStarts ==
    /\ user # NoUser
    /\ isEditing
    /\ \E sub \in Submissions :
        LET invoice == invoiceToSave(currentInvoice, user, sub.form, sub.items)
        IN  \/ /\ ~updatesNoRow(rows, invoice)
               /\ isRealId(invoice) \/ nextId <= FetchRows
               /\ rows' = saveInvoice(rows, invoice, BackendId(nextId), dbClock)
               /\ nextId' = IF isRealId(invoice) THEN nextId ELSE nextId + 1
               /\ dbClock' = IF isRealId(invoice) THEN dbClock ELSE dbClock + 1
               /\ saved' = <<invoice>>
               /\ fetchInvoicesStarts(user, "close")
               /\ alerts' = <<>>
            \/ /\ alerts' = <<Alert("Failed to save invoice.", 0)>>
               /\ saved' = <<>>
               /\ UNCHANGED <<rows, nextId, dbClock, error, isLoadingData,
                              inflight, latest>>
    /\ deleted' = <<>>
    /\ confirmed' = <<>>
    /\ UNCHANGED <<invoices, today, dashVars, user, isEditing, currentInvoice,
                   fetched, formData, items, sheet, importUser, imported,
                   exported, view, authVars>>

\* mutant: the answer of window.confirm is not looked at
handleDeleteInvoiceStarts_NoDialog ==
    /\ user # NoUser
    /\ ~isEditing
    /\ view = "invoices"
    /\ \E i \in DOMAIN invoices, ok \in BOOLEAN :
        /\ confirmed' = <<ok>>
        /\ \/ /\ rows' = deleteInvoice(rows, invoices[i].id)
              /\ deleted' = <<invoices[i].id>>
              /\ fetchInvoicesStarts(user, "")
              /\ alerts' = <<>>
           \/ /\ alerts' = <<Alert("Failed to delete.", 0)>>
              /\ deleted' = <<>>
              /\ UNCHANGED <<rows, error, isLoadingData, inflight, latest>>
    /\ saved' = <<>>
    /\ UNCHANGED <<invoices, today, dashVars, user, nextId, dbClock, isEditing,
                   currentInvoice, fetched, formData, items, sheet, importUser,
                   imported, exported, view, authVars>>

\* handleDeleteInvoice(id) up to `await fetchInvoices`, from a line of the
\* list; window.confirm answers `ok`
handleDeleteInvoiceStarts ==
    /\ user # NoUser
    /\ ~isEditing
    /\ view = "invoices"
    /\ \E i \in DOMAIN invoices, ok \in BOOLEAN :
        /\ confirmed' = <<ok>>
        /\ \/ /\ ok
              /\ rows' = deleteInvoice(rows, invoices[i].id)
              /\ deleted' = <<invoices[i].id>>
              /\ fetchInvoicesStarts(user, "")
              /\ alerts' = <<>>
           \/ /\ ok
              /\ alerts' = <<Alert("Failed to delete.", 0)>>
              /\ deleted' = <<>>
              /\ UNCHANGED <<rows, error, isLoadingData, inflight, latest>>
           \/ /\ ~ok
              /\ alerts' = <<>>
              /\ deleted' = <<>>
              /\ UNCHANGED <<rows, error, isLoadingData, inflight, latest>>
    /\ saved' = <<>>
    /\ UNCHANGED <<invoices, today, dashVars, user, nextId, dbClock, isEditing,
                   currentInvoice, fetched, formData, items, sheet, importUser,
                   imported, exported, view, authVars>>

FetchInit ==
    /\ invoices = <<>>
    /\ today = SpecStart
    /\ Rendered(invoices, today)
    /\ AppIdle /\ EditorIdle /\ ImportIdle /\ FlowIdle /\ AuthIdle

FetchNext ==
    \/ authChangeWithUser \/ handleLoginStarts \/ SignedOut
    \/ onNavigate \/ AppOpenEditor \/ CancelEditor
    \/ handleSaveInvoiceStarts \/ handleDeleteInvoiceStarts
    \/ getInvoicesAnswers \/ getInvoicesReturns

FetchSpec == FetchInit /\ [][FetchNext]_vars

----------------------------------------------------------------------------
(* RoundTripSpec: the list is exported to a file and the file is imported  *)
(* back, over a table that holds rows of earlier sessions.                 *)

\* One line of the exported sheet: {...inv, items: JSON.stringify(inv.items)}
\* written by json_to_sheet and read back by sheet_to_json. A cell holds
\* the value written, and a field that was undefined has no cell.
exportedRow(inv) ==
    [inv EXCEPT !.items = JsonCell(@), !.total = NumberCell(@)]

\* the filters of the list page; 'all' keeps every record
StatusFilters == {"all"} \cup InvoiceStatus

DirectionFilters == {"all", "incoming", "outgoing"}

\* filteredInvoices, the search box left empty
filteredInvoices(invs, filterStatus, filterDirection) ==
    SelectSeq(invs, LAMBDA inv :
        /\ filterStatus = "all" \/ inv.status = filterStatus
        /\ filterDirection = "all" \/ inv.direction = filterDirection)

\* handleExport: the filtered list is written to a file
handleExport ==
    /\ user # NoUser
    /\ ~isEditing
    /\ view = "invoices"
    /\ \E filterStatus \in StatusFilters, filterDirection \in DirectionFilters :
        LET list == filteredInvoices(invoices, filterStatus, filterDirection)
        IN  exported' = <<[list |-> list,
                           file |-> [k \in DOMAIN list |-> exportedRow(list[k])]]>>
    /\ saved' = <<>>
    /\ deleted' = <<>>
    /\ alerts' = <<>>
    /\ confirmed' = <<>>
    /\ UNCHANGED <<invoices, today, dashVars, user, rows, nextId, dbClock,
                   isEditing, currentInvoice, fetched, formData, items, sheet,
                   importUser, imported, view, error, isLoadingData, inflight,
                   latest, authVars>>

\* A row stored in an earlier session by the editor, filled in as `sub`
EditorRow(n, userId, sub) ==
    [id |-> BackendId(n), created_at |-> n,
     cols |-> dbPayload(invoiceToSave(<<>>, userId, sub.form, sub.items))]

\* A row stored in an earlier session by the import of a hand-typed line
TypedInRow(n, userId) ==
    [id |-> BackendId(n), created_at |-> n,
     cols |-> dbPayload(
                invoicesWithUser(importedInvoices(<<TypedRow>>), userId)[1])]

StoredBefore ==
    { EditorRow(0, "alice", CHOOSE s \in Submissions : s.form.status = "paid"),
      EditorRow(-1, "bob", CHOOSE s \in Submissions : s.form.status = "pending"),
      TypedInRow(-2, "alice") }

RoundTripInit ==
    /\ invoices = <<>>
    /\ today = SpecStart
    /\ Rendered(invoices, today)
    /\ user = NoUser
    /\ rows = StoredBefore
    /\ nextId = 1
    /\ dbClock = 1
    /\ isEditing = FALSE
    /\ currentInvoice = <<>>
    /\ fetched = <<>>
    /\ deleted = <<>>
    /\ EditorIdle /\ ImportIdle /\ FlowIdle /\ AuthIdle

\* the file chosen for import is the one exported last
importExported ==
    /\ exported # <<>>
    /\ handleFileChange(exported[1].file)

RoundTripNext ==
    \/ SignedIn \/ SignedOut \/ onNavigate
    \/ handleExport \/ importExported \/ readerOnload

RoundTripSpec == RoundTripInit /\ [][RoundTripNext]_vars

----------------------------------------------------------------------------
(* Vocabulary of the properties *)

RECURSIVE SumOver(_, _)
\* the sum of `total` over the records of invs at the positions in I
SumOver(invs, I) ==
    IF I = {} THEN 0
    ELSE LET i == CHOOSE j \in I : TRUE
         IN  invs[i].total + SumOver(invs, I \ {i})

\* the positions of invs whose record satisfies P
Where(invs, P(_)) == { i \in DOMAIN invs : P(invs[i]) }

\* invs with the record at position i left out
Without(invs, i) == SubSeq(invs, 1, i - 1) \o SubSeq(invs, i + 1, Len(invs))

\* months since year 0 of a date or of a (year, month)
MonthIndex(d) == d.year * 12 + d.month

\* the record's issue date lies in the calendar month of date d
IssuedIn(inv, d) == MonthIndex(inv.date) = MonthIndex(d)

Buckets == 1..6

----------------------------------------------------------------------------
(* C1: totalIncome is the sum of `total` over the outgoing records that    *)
(* are not drafts and totalExpense the sum over the incoming records that  *)
(* are not drafts, whatever the sign of the totals.                        *)

C1_IncomeExpenseSums ==
    /\ totalIncome =
         SumOver(invoices, Where(invoices,
             LAMBDA inv : inv.direction = "outgoing" /\ inv.status # "draft"))
    /\ totalExpense =
         SumOver(invoices, Where(invoices,
             LAMBDA inv : inv.direction = "incoming" /\ inv.status # "draft"))

\* a negative outgoing total and a zero incoming total have been summed
C1_Witness ==
    /\ Len(invoices) = 2
    /\ \E i, j \in DOMAIN invoices :
        /\ invoices[i].direction = "outgoing" /\ invoices[i].status = "paid"
        /\ invoices[i].total < 0
        /\ invoices[j].direction = "incoming" /\ invoices[j].status = "pending"
        /\ invoices[j].total = 0
    /\ totalIncome < 0
    /\ totalExpense = 0

(* C2: pendingIncome is the sum of `total` over the outgoing pending       *)
(* records, overdueIncome over the outgoing overdue records; incoming      *)
(* records count in neither.                                               *)

C2_PendingOverdueSums ==
    /\ pendingIncome =
         SumOver(invoices, Where(invoices,
             LAMBDA inv : inv.direction = "outgoing" /\ inv.status = "pending"))
    /\ overdueIncome =
         SumOver(invoices, Where(invoices,
             LAMBDA inv : inv.direction = "outgoing" /\ inv.status = "overdue"))

\* an incoming pending record lies beside an outgoing pending one
C2_Witness ==
    /\ \E i, j \in DOMAIN invoices :
        /\ invoices[i].direction = "incoming" /\ invoices[i].status = "pending"
        /\ invoices[i].total = 2
        /\ invoices[j].direction = "outgoing" /\ invoices[j].status = "pending"
        /\ invoices[j].total = -1
    /\ pendingIncome = -1
    /\ overdueIncome = 0

(* C3: on every current date the six buckets are the current month and the *)
(* five months before it, in chronological order, the current month last.  *)

C3_SixConsecutiveMonths ==
    \A k \in Buckets :
        /\ k \in DOMAIN barChartData
        /\ MonthIndex(barChartData[k].fullDate) = MonthIndex(today) - (6 - k)

(* C4: the revenue series and the pending/overdue series have exactly 6    *)
(* entries each, whatever the invoice list.                                *)

C4_SixEntries ==
    /\ Len(barChartData) = 6
    /\ Len(lineChartData) = 6

\* a full list rendered on the 31st
C4_Witness ==
    /\ Len(invoices) = MaxInvoices
    /\ today.day = 31
    /\ Len(barChartData) = 6
    /\ Len(lineChartData) = 6

(* C5: each bucket's revenue value is the sum of `total` over the outgoing *)
(* non-draft records whose issue date lies in that bucket's (month, year). *)

C5_RevenuePerBucket ==
    \A k \in DOMAIN barChartData :
        barChartData[k].total =
            SumOver(invoices, Where(invoices,
                LAMBDA inv : /\ IssuedIn(inv, barChartData[k].fullDate)
                             /\ inv.direction = "outgoing"
                             /\ inv.status # "draft"))

\* the current month's bucket sums a paid outgoing record and leaves out a
\* draft of the same month
C5_Witness ==
    /\ \E i, j \in DOMAIN invoices :
        /\ IssuedIn(invoices[i], today) /\ invoices[i].direction = "outgoing"
        /\ invoices[i].status = "paid" /\ invoices[i].total = 2
        /\ IssuedIn(invoices[j], today) /\ invoices[j].direction = "outgoing"
        /\ invoices[j].status = "draft" /\ invoices[j].total = 2
    /\ barChartData[6].total = 2

(* C6: the pending/overdue series has the same six-month axis as the       *)
(* revenue series; each bucket's `pending` is the sum of `total` over the  *)
(* pending records issued in its month and `overdue` the sum over the      *)
(* overdue ones, outgoing and incoming alike.                              *)

C6_PendingOverduePerBucket ==
    /\ DOMAIN lineChartData = DOMAIN barChartData
    /\ \A k \in DOMAIN lineChartData :
        /\ lineChartData[k].fullDate = barChartData[k].fullDate
        /\ lineChartData[k].name = barChartData[k].name
        /\ lineChartData[k].pending =
            SumOver(invoices, Where(invoices,
                LAMBDA inv : /\ IssuedIn(inv, lineChartData[k].fullDate)
                             /\ inv.status = "pending"))
        /\ lineChartData[k].overdue =
            SumOver(invoices, Where(invoices,
                LAMBDA inv : /\ IssuedIn(inv, lineChartData[k].fullDate)
                             /\ inv.status = "overdue"))

\* an incoming pending and an outgoing overdue record of the current month
C6_Witness ==
    /\ \E i, j \in DOMAIN invoices :
        /\ IssuedIn(invoices[i], today) /\ invoices[i].direction = "incoming"
        /\ invoices[i].status = "pending" /\ invoices[i].total = 2
        /\ IssuedIn(invoices[j], today) /\ invoices[j].direction = "outgoing"
        /\ invoices[j].status = "overdue" /\ invoices[j].total = -1
    /\ lineChartData[6].pending = 2
    /\ lineChartData[6].overdue = -1

(* C7: a record counts in the buckets whose (month, year) is that of its   *)
(* issue date, never of its dueDate: every bucket value is the sum over    *)
(* the records issued in the bucket's month, a bucket in whose month no    *)
(* record was issued is zero (so a record issued outside the window counts *)
(* nowhere), and changing only dueDates changes no bucket value.           *)

C7_PlacedByIssueDate ==
    \A k \in DOMAIN barChartData :
        LET issued == Where(invoices,
                          LAMBDA inv : IssuedIn(inv, barChartData[k].fullDate))
        IN  /\ barChartData[k].total =
                 SumOver(invoices, issued \cap Where(invoices, IsIncome))
            /\ lineChartData[k].pending =
                 SumOver(invoices, issued \cap Where(invoices, IsPending))
            /\ lineChartData[k].overdue =
                 SumOver(invoices, issued \cap Where(invoices, IsOverdue))
            /\ issued = {} =>
                 /\ barChartData[k].total = 0
                 /\ lineChartData[k].pending = 0
                 /\ lineChartData[k].overdue = 0

OnlyDueDatesChange ==
    /\ today' = today
    /\ invoices' # invoices
    /\ DOMAIN invoices' = DOMAIN invoices
    /\ \A i \in DOMAIN invoices :
        invoices'[i] = [invoices[i] EXCEPT !.dueDate = invoices'[i].dueDate]

C7_BucketByIssueDate ==
    /\ []C7_PlacedByIssueDate
    /\ [][OnlyDueDatesChange =>
            /\ barChartData' = barChartData
            /\ lineChartData' = lineChartData]_vars

\* a pending outgoing record whose dueDate was moved to another month of
\* the window counts in the bucket of its issue date and not in that of its
\* dueDate
C7_Witness ==
    /\ Len(invoices) = 1
    /\ invoices[1].dueDate # invoices[1].date
    /\ invoices[1].direction = "outgoing" /\ invoices[1].status = "pending"
    /\ invoices[1].total = 2
    /\ \E j, k \in DOMAIN barChartData :
        /\ j # k
        /\ MonthIndex(barChartData[j].fullDate) = MonthIndex(invoices[1].date)
        /\ MonthIndex(barChartData[k].fullDate) = MonthIndex(invoices[1].dueDate)
        /\ barChartData[j].total = 2 /\ lineChartData[j].pending = 2
        /\ barChartData[k].total = 0 /\ lineChartData[k].pending = 0

(* C8: a draft record contributes 0 to totalIncome, to totalExpense and to *)
(* every revenue bucket: with any draft left out of the list the three are *)
(* what they are with it.                                                  *)

C8_DraftContributesNothing ==
    \A i \in DOMAIN invoices :
        invoices[i].status = "draft" =>
            LET rest == Without(invoices, i)
            IN  /\ totalIncome = TotalIncome(rest)
                /\ totalExpense = TotalExpense(rest)
                /\ \A k \in DOMAIN barChartData :
                    barChartData[k].total = BarIncome(rest, barChartData[k])

\* an outgoing and an incoming draft of the current month, totals not zero
C8_Witness ==
    /\ Len(invoices) = 2
    /\ \A i \in DOMAIN invoices :
        /\ invoices[i].status = "draft"
        /\ invoices[i].total = 2
        /\ IssuedIn(invoices[i], today)
    /\ invoices[1].direction = "outgoing"
    /\ invoices[2].direction = "incoming"
    /\ totalIncome = 0 /\ totalExpense = 0
    /\ \A k \in DOMAIN barChartData : barChartData[k].total = 0

(* C9: every record contributes to exactly the summary scalars documented  *)
(* for its direction and status: an outgoing pending record to totalIncome *)
(* and pendingIncome, an outgoing overdue record to totalIncome and        *)
(* overdueIncome, an outgoing paid record to totalIncome only, an incoming *)
(* record that is no draft to totalExpense only, a draft to none.          *)

\* what the four scalars lose when the record at position i is left out
Contribution(i) ==
    LET rest == Without(invoices, i)
    IN  [totalIncome |-> totalIncome - TotalIncome(rest),
         totalExpense |-> totalExpense - TotalExpense(rest),
         pendingIncome |-> pendingIncome - PendingIncome(rest),
         overdueIncome |-> overdueIncome - OverdueIncome(rest)]

Documented(inv) ==
    LET out == inv.direction = "outgoing"
        live == inv.status # "draft"
    IN  [totalIncome |-> IF out /\ live THEN inv.total ELSE 0,
         totalExpense |-> IF ~out /\ live THEN inv.total ELSE 0,
         pendingIncome |-> IF out /\ inv.status = "pending" THEN inv.total ELSE 0,
         overdueIncome |-> IF out /\ inv.status = "overdue" THEN inv.total ELSE 0]

C9_DocumentedScalarsOnly ==
    \A i \in DOMAIN invoices : Contribution(i) = Documented(invoices[i])

\* a paid outgoing record beside an overdue incoming one
C9_Witness ==
    /\ Len(invoices) = 2
    /\ invoices[1].direction = "outgoing" /\ invoices[1].status = "paid"
    /\ invoices[1].total = 2
    /\ invoices[2].direction = "incoming" /\ invoices[2].status = "overdue"
    /\ invoices[2].total = -1
    /\ totalIncome = 2 /\ totalExpense = -1
    /\ pendingIncome = 0 /\ overdueIncome = 0

(* C10: the aggregation does not depend on the order of the list: every    *)
(* permutation of it yields the same four scalars and the same bucket      *)
(* values of both series.                                                  *)

Orderings(n) ==
    { p \in [1..n -> 1..n] : \A i, j \in 1..n : p[i] = p[j] => i = j }

Shown(series) ==
    [k \in DOMAIN series |->
        [name |-> series[k].name, total |-> series[k].total,
         pending |-> series[k].pending, overdue |-> series[k].overdue]]

RenderedAgainInSameMonth ==
    /\ invoices' = invoices
    /\ today' # today
    /\ today'.year = today.year
    /\ today'.month = today.month

C11_SameMonthSameOutput ==
    [][RenderedAgainInSameMonth =>
        /\ totalIncome' = totalIncome
        /\ totalExpense' = totalExpense
        /\ pendingIncome' = pendingIncome
        /\ overdueIncome' = overdueIncome
        /\ Shown(barChartData') = Shown(barChartData)
        /\ Shown(lineChartData') = Shown(lineChartData)]_vars

(* C12: a render leaves the invoice list it was given unchanged: the same  *)
(* records with the same field values in the same order.                   *)

C12_RenderKeepsInvoices ==
    [][today' # today => invoices' = invoices]_vars

\* a list of two different records has been rendered again on the 31st
C12_Witness ==
    /\ today.day = 31
    /\ Len(invoices) = 2
    /\ invoices[1] # invoices[2]
    /\ Rendered(invoices, today)

(* C13: a bucket in whose month no record was issued is present with value *)
(* zero; for the empty list the four scalars are 0 and both series are six *)
(* buckets whose total, pending and overdue are 0.                         *)

C13_EmptyBucketsAreZero ==
    /\ \A k \in Buckets :
        /\ k \in DOMAIN barChartData
        /\ k \in DOMAIN lineChartData
        /\ (\A i \in DOMAIN invoices :
                ~IssuedIn(invoices[i], barChartData[k].fullDate)) =>
            /\ barChartData[k].total = 0
            /\ lineChartData[k].pending = 0
            /\ lineChartData[k].overdue = 0
    /\ invoices = <<>> =>
        /\ totalIncome = 0 /\ totalExpense = 0
        /\ pendingIncome = 0 /\ overdueIncome = 0
        /\ DOMAIN barChartData = Buckets
        /\ DOMAIN lineChartData = Buckets
        /\ \A k \in Buckets :
            /\ barChartData[k].total = 0
            /\ lineChartData[k].pending = 0
            /\ lineChartData[k].overdue = 0

\* the empty list rendered on the 31st, and a list whose only live record
\* is of the current month, so that the five earlier buckets are empty
C13_Witness ==
    /\ today.day = 31
    /\ \/ invoices = <<>> /\ totalIncome = 0 /\ barChartData[6].total = 0
       \/ /\ Len(invoices) = 1
          /\ barChartData[6].total = 2
          /\ \A k \in 1..4 : barChartData[k].total = 0

(* C15: every invoice the editor hands to onSave has `total` equal to the  *)
(* sum of quantity * price over the items of that same invoice, after any  *)
(* sequence of addItem, removeItem and handleItemChange.                   *)

RECURSIVE ItemsWorth(_, _)
\* the sum of quantity * price over the items at the positions in I
ItemsWorth(its, I) ==
    IF I = {} THEN 0
    ELSE LET i == CHOOSE j \in I : TRUE
         IN  its[i].quantity * its[i].price + ItemsWorth(its, I \ {i})

C15_TotalIsItemsWorth ==
    \A k \in DOMAIN saved :
        saved[k].total = ItemsWorth(saved[k].items, DOMAIN saved[k].items)

\* a stored invoice whose total was 6 is saved with two items worth 3 + 6
C15_Witness ==
    /\ saved # <<>>
    /\ currentInvoice # <<>>
    /\ currentInvoice[1].total = 6
    /\ Len(saved[1].items) = 2
    /\ saved[1].items[1].quantity = 1 /\ saved[1].items[1].price = 3
    /\ saved[1].items[2].quantity = 2 /\ saved[1].items[2].price = 3
    /\ saved[1].total = 9

(* C16: getInvoices(userId) returns exactly the stored records whose owner *)
(* is userId, each once, none of another user, newest first by creation    *)
(* time.                                                                   *)

C16_OwnRowsNewestFirst ==
    \A k \in DOMAIN fetched :
        LET userId == fetched[k].userId
            data == fetched[k].data
        IN  /\ { data[i] : i \in DOMAIN data }
                 = { fromRow(r) : r \in { q \in rows : q.cols.user_id = userId } }
            /\ \A i, j \in DOMAIN data : data[i].id = data[j].id => i = j
            /\ \A i \in DOMAIN data : data[i].userId = userId
            /\ \A i, j \in DOMAIN data :
                 i < j => data[i].createdAt >= data[j].createdAt

\* two rows of one user inserted at different times are returned, a row of
\* the other user is not
C16_Witness ==
    /\ fetched # <<>>
    /\ Len(fetched[1].data) = 2
    /\ fetched[1].data[1].createdAt > fetched[1].data[2].createdAt
    /\ \E r \in rows : r.cols.user_id # fetched[1].userId

(* C18: a row changes only by a whole-row save and disappears only by a    *)
(* delete of its id: after saveInvoice on an existing id the row reads     *)
(* back as the submitted invoice, field for field, and every other row is  *)
(* as before; after deleteInvoice(id) exactly the rows with another id     *)
(* remain; no other call changes or removes a row.                         *)

C18_ReplacedWholeDeletedById ==
    [][ /\ (saved' # <<>> /\ isRealId(saved'[1])) =>
            /\ \E r \in rows' : r.id = saved'[1].id /\ fromRow(r) = saved'[1]
            /\ { r \in rows' : r.id # saved'[1].id }
                 = { r \in rows : r.id # saved'[1].id }
        /\ deleted' # <<>> =>
            /\ rows' \subseteq rows
            /\ \A r \in rows : r \in rows' <=> r.id # deleted'[1]
        /\ (\E r \in rows : r \notin rows') =>
            (saved' # <<>> /\ isRealId(saved'[1])) \/ deleted' # <<>> ]_vars

\* an edited invoice was saved over its row while another row is stored
C18_Witness ==
    /\ saved # <<>>
    /\ isRealId(saved[1])
    /\ \E r \in rows : r.id = saved[1].id /\ r.cols.notes = saved[1].notes
    /\ \E r \in rows : r.id # saved[1].id /\ r.cols.notes # saved[1].notes

(* C20: saveInvoice inserts one row with a backend-generated id when the   *)
(* invoice id is '' or starts with 'inv_' and no existing row changes;     *)
(* otherwise it updates the row with that id, and the ids and the number   *)
(* of rows stay the same.                                                  *)

C20_InsertsNewUpdatesExisting ==
    [][ saved' # <<>> =>
          IF saved'[1].id = EmptyId \/ saved'[1].id.prefix = "inv_"
          THEN /\ rows \subseteq rows'
               /\ Cardinality(rows' \ rows) = 1
               /\ \A r \in rows' \ rows :
                    /\ r.id \notin { q.id : q \in rows } \cup {EmptyId}
                    /\ r.id.prefix # "inv_"
                    /\ r.cols = dbPayload(saved'[1])
          ELSE /\ { r.id : r \in rows' } = { r.id : r \in rows }
               /\ Cardinality(rows') = Cardinality(rows)
               /\ \E r \in rows' :
                    r.id = saved'[1].id /\ r.cols = dbPayload(saved'[1]) ]_vars

\* a new invoice of the editor was stored next to an existing row
C20_Witness ==
    /\ saved # <<>>
    /\ saved[1].id = TempId
    /\ Cardinality(rows) = 2
    /\ \E r \in rows : r.id = BackendId(2) /\ r.cols = dbPayload(saved[1])

(* C17: every row written is stored with the id of the user signed in at  *)
(* that moment as its owner, whatever owner the file or the edited record  *)
(* held, and nothing is written while no user is signed in.                *)

C17_WrittenRowsOwnedBySignedIn ==
    [][ \A r \in rows' \ rows : user # NoUser /\ r.cols.user_id = user ]_vars

(* C14: a record with an unparseable issue date or a non-numeric total is  *)
(* refused with an error: no row of a file whose total is text becomes an  *)
(* invoice with some number as its total, and no render counts a record    *)
(* with an unparseable issue date in totalIncome while it is in no bucket  *)
(* of the revenue series.                                                  *)

C14_MalformedFailFast ==
    /\ \A k \in DOMAIN imported : sheet[k].total.kind # "text"
    /\ ~ \E i \in DOMAIN invoices :
            /\ invoices[i].date = NotADate
            /\ IsIncome(invoices[i])
            /\ invoices[i].total > 0
            /\ Rendered(invoices, today)
            /\ totalIncome >= invoices[i].total
            /\ \A k \in Buckets : ~InMonth(invoices[i], barChartData[k])

(* C19: a row of the sheet without client name, issue date, due date or    *)
(* status is rejected: it is never handed to onImport as an invoice and    *)
(* never stored.                                                           *)

HasRequiredFields(inv) ==
    /\ inv.clientName # Missing
    /\ inv.date # NotADate
    /\ inv.dueDate # NotADate
    /\ inv.status # Missing

C19_IncompleteRowsRejected ==
    /\ \A k \in DOMAIN imported : HasRequiredFields(imported[k])
    /\ \A r \in rows : HasRequiredFields(fromRow(r))

(* C25: the import reports 'Successfully imported N invoices' only when   *)
(* the bulk save of those invoices succeeded: the success message never    *)
(* follows the message of a failed bulk save.                              *)

C25_SuccessOnlyAfterSave ==
    \A i \in DOMAIN alerts :
        alerts[i].text = "Successfully imported" =>
            \A j \in DOMAIN alerts : alerts[j].text # "Failed to import."

(* C26: on every current date each invoice lies in at most one bucket of   *)
(* the revenue series and of the pending/overdue series, so when no total  *)
(* is negative the six revenue buckets add up to at most totalIncome.      *)

RECURSIVE BucketsWorth(_, _)
\* the sum of `total` over the buckets of series at the positions in K
BucketsWorth(series, K) ==
    IF K = {} THEN 0
    ELSE LET k == CHOOSE j \in K : TRUE
         IN  series[k].total + BucketsWorth(series, K \ {k})

C26_CountedInOneBucket ==
    /\ \A i \in DOMAIN invoices :
        /\ Cardinality({ k \in DOMAIN barChartData :
                            InMonth(invoices[i], barChartData[k]) }) <= 1
        /\ Cardinality({ k \in DOMAIN lineChartData :
                            InMonth(invoices[i], lineChartData[k]) }) <= 1
    /\ (\A i \in DOMAIN invoices : invoices[i].total >= 0) =>
        BucketsWorth(barChartData, DOMAIN barChartData) <= totalIncome

(* C21: a submission of the sign-in form that has ended has reset        *)
(* isLoading; when it failed (a field was missing, the backend returned an *)
(* error or no user, or signup created the account without a session) the  *)
(* error message is set and nobody is logged in, and after a signup        *)
(* without session the message is the one signup throws.                   *)

\* The submission r was not a successful login or signup
SubmissionFailed(r) ==
    \/ ~r.sent
    \/ r.answer.failed
    \/ r.answer.user = NoUser
    \/ ~r.isLogin /\ ~r.answer.session

C21_FailedSubmissionShowsError ==
    \A i \in DOMAIN authRequest :
        LET r == authRequest[i]
        IN  /\ r.done => ~isLoading
            /\ r.done /\ SubmissionFailed(r) =>
                /\ authError # ""
                /\ user = NoUser
            /\ r.done /\ ~r.isLogin /\ r.sent /\ ~r.answer.failed
                    /\ r.answer.user # NoUser /\ ~r.answer.session =>
                /\ authError = CheckYourEmail
                /\ user = NoUser

\* signup has thrown because the account was created without a session
C21_Witness ==
    /\ authRequest # <<>>
    /\ authRequest[1].done
    /\ ~authRequest[1].isLogin
    /\ authRequest[1].answer.user # NoUser
    /\ ~authRequest[1].answer.session
    /\ authError = CheckYourEmail
    /\ user = NoUser

(* C23: whenever the last auth event the app has processed is a sign-out  *)
(* (nobody is signed in), the in-memory invoice list is empty, also after  *)
(* a fetch that started before the sign-out has resumed.                   *)

C23_SignedOutListEmpty == user = NoUser => invoices = <<>>

(* C24: once every fetchInvoices call has completed, the list in state is  *)
(* what the call that started last loaded, when that call succeeded and    *)
(* was made for the user who is signed in.                                 *)

C24_ListIsNewestFetch ==
    \A i \in DOMAIN latest :
        /\ inflight = <<>>
        /\ latest[i].answered
        /\ ~latest[i].failed
        /\ latest[i].userId = user
        => invoices = latest[i].data

(* C22: handleSaveInvoice closes the editor exactly when saveInvoice      *)
(* succeeded, and not before its fetchInvoices call has ended: the step in *)
(* which the save succeeds leaves isEditing, currentInvoice, view and      *)
(* invoices alone and starts the fetch; the step in which that fetch       *)
(* resumes sets isEditing = false, currentInvoice = null, view =           *)
(* 'invoices' and, when the fetch succeeded, the list it loaded. A failed  *)
(* save leaves isEditing, currentInvoice, view and invoices unchanged and  *)
(* starts no fetch.                                                        *)

\* the calls in flight after whose return the editor is closed
ClosingCalls(calls) == { i \in DOMAIN calls : calls[i].andThen = "close" }

C29_DeleteOnlyWhenConfirmed ==
    [][/\ deleted' # <<>> =>
            /\ user # NoUser
            /\ confirmed' = <<TRUE>>
            /\ Len(inflight') = Len(inflight) + 1
            /\ \A r \in rows' : r.id # deleted'[1]
       /\ confirmed' = <<FALSE>> =>
            /\ deleted' = <<>>
            /\ UNCHANGED <<rows, invoices, view, isEditing, currentInvoice,
                           inflight, error, isLoadingData>>
       /\ alerts' = <<Alert("Failed to delete.", 0)>> =>
            UNCHANGED <<rows, invoices, inflight, error, isLoadingData>>
      ]_vars

\* the dialog was declined over a list that has the invoice and a table
\* that has its row
C29_Witness ==
    /\ confirmed = <<FALSE>>
    /\ invoices # <<>>
    /\ rows # {}
    /\ user # NoUser

(* C28: a bulk import only inserts. When the file exported from a list   *)
(* is imported back and the bulk save succeeds, every row that was in the  *)
(* table is still there unchanged, and the new rows are one per exported   *)
(* record, each with the direction, client name, client email, issue date, *)
(* due date, status, items, notes and total of its record.                 *)

\* the columns of a row are the fields of the record inv
SameContent(cols, inv) ==
    /\ cols.direction = inv.direction
    /\ cols.client_name = inv.clientName
    /\ cols.client_email = inv.clientEmail
    /\ cols.date = inv.date
    /\ cols.due_date = inv.dueDate
    /\ cols.status = inv.status
    /\ cols.items = inv.items
    /\ cols.notes = inv.notes
    /\ cols.total = inv.total

C28_RoundTripAddsCopies ==
    [][/\ exported # <<>>
       /\ importUser # NoUser
       /\ importUser' = NoUser
       /\ sheet = exported[1].file
       /\ alerts' = <<Alert("Successfully imported", Len(sheet))>>
       => LET list == exported[1].list
              new == rows' \ rows
          IN  /\ rows \subseteq rows'
              /\ Cardinality(new) = Len(list)
              /\ \E f \in [DOMAIN list -> new] :
                    /\ \A j, k \in DOMAIN list : f[j] = f[k] => j = k
                    /\ \A k \in DOMAIN list : SameContent(f[k].cols, list[k])
      ]_vars

\* a file of two records has been exported and imported back
C28_Witness ==
    /\ exported # <<>>
    /\ sheet = exported[1].file
    /\ Len(sheet) = 2
    /\ alerts = <<Alert("Successfully imported", 2)>>
    /\ \E r \in rows : r.id = BackendId(2)

====
